---- MODULE Spec2Model ----
(***************************************************************************)
(* Model of MCPClient (src/src/client.ts): the command rewriter            *)
(* (generateCallStdioServerCommand, generateNpxCommand,                    *)
(* generateUvxCommand), transport selection (isSSEUrl, createTransport),   *)
(* the connection retry loop (connectToServer) and the operation facade    *)
(* (listTools, callTool, listResources, readResource, cleanup).            *)
(*                                                                         *)
(* The protocol client of the SDK (connect, listTools, callTool, ...) is   *)
(* an external collaborator: each of its calls is a suspension point that  *)
(* later resolves or rejects, chosen nondeterministically.                 *)
(***************************************************************************)
EXTENDS Integers, Sequences, FiniteSets, TLC

VARIABLES
    platform,      \* process.platform, fixed for the process lifetime
    config0,       \* the config handed to the constructor (history)
    clientConfig,  \* this.clientConfig
    transport,     \* this.transport: 0 is null, otherwise a handle id
    handles,       \* every transport handle constructed so far; the id is the index
    connectCalls,  \* handle ids passed to mcpClient.connect, in call order (history)
    sessionOpen,   \* whether the SDK client currently holds an open session
    lastOpen,      \* handle id of the most recent successful connect, 0 if none
    pc,            \* where the single in-flight operation is suspended
    op,            \* the operation invoked last
    retries,       \* the local variable `retries` of connectToServer / listTools
    connects,      \* number of connectToServer invocations so far
    rewrites,      \* number of rewriter applications over the lifetime (history)
    afterFirst,    \* the stored config right after the first rewriter application
    log,           \* events of the operation invoked last (history)
    underErrs,     \* errors raised to the operation invoked last, in order
    result         \* what the operation invoked last gave its caller

vars == <<platform, config0, clientConfig, transport, handles, connectCalls,
          sessionOpen, lastOpen, pc, op, retries, connects, rewrites,
          afterFirst, log, underErrs, result>>

-----------------------------------------------------------------------------
(* Bounds of the model *)

\* longest caller-supplied args array
MaxArgs == 2
\* connectToServer invocations in one behaviour
MaxConnects == 2
\* rewriter applications in one behaviour of SpecRewrite
MaxRewrites == 3

-----------------------------------------------------------------------------
(* Strings.  TLC strings support Len, SubSeq and \o. *)

Char(s, i) == SubSeq(s, i, i)

LowerS == "abcdefghijklmnopqrstuvwxyz"
UpperS == "ABCDEFGHIJKLMNOPQRSTUVWXYZ"
DigitS == "0123456789"

CharsOf(s) == { Char(s, i) : i \in 1..Len(s) }

\* String.prototype.startsWith
startsWith(s, p) == Len(s) >= Len(p) /\ SubSeq(s, 1, Len(p)) = p

\* Array.prototype.join(' ')
RECURSIVE join(_)
join(a) ==
    IF a = <<>> THEN ""
    ELSE IF Len(a) = 1 THEN a[1]
    ELSE a[1] \o " " \o join(Tail(a))

ToLowerChar(c) ==
    IF \E i \in 1..Len(UpperS) : Char(UpperS, i) = c
    THEN Char(LowerS, CHOOSE i \in 1..Len(UpperS) : Char(UpperS, i) = c)
    ELSE c

RECURSIVE ToLower(_)
ToLower(s) ==
    IF s = "" THEN "" ELSE ToLowerChar(Char(s, 1)) \o ToLower(SubSeq(s, 2, Len(s)))

\* index of the first position of s holding a character of cs, 0 when none
FirstOf(s, cs) ==
    IF \E i \in 1..Len(s) : Char(s, i) \in cs
    THEN CHOOSE i \in 1..Len(s) :
            /\ Char(s, i) \in cs
            /\ \A j \in 1..(i - 1) : Char(s, j) \notin cs
    ELSE 0

-----------------------------------------------------------------------------
(* new URL(url) without a base: whether the WHATWG parser accepts the      *)
(* string.  Leading and trailing spaces are stripped; a scheme (a letter,  *)
(* then letters, digits, + - .) up to the first ':' is required; a special *)
(* scheme other than file needs a non-empty host free of forbidden code    *)
(* points; any other scheme takes an opaque path.                          *)

RECURSIVE TrimLeft(_)
TrimLeft(s) ==
    IF s # "" /\ Char(s, 1) = " " THEN TrimLeft(SubSeq(s, 2, Len(s))) ELSE s

RECURSIVE TrimRight(_)
TrimRight(s) ==
    IF s # "" /\ Char(s, Len(s)) = " " THEN TrimRight(SubSeq(s, 1, Len(s) - 1)) ELSE s

Trim(s) == TrimRight(TrimLeft(s))

SpecialSchemes == {"http", "https", "ftp", "ws", "wss"}

\* the scheme of a string whose scheme is well formed, "" otherwise
SchemeOf(url) ==
    LET s == Trim(url)
        c == FirstOf(s, {":"})
    IN  IF /\ c >= 2
           /\ Char(s, 1) \in CharsOf(LowerS) \cup CharsOf(UpperS)
           /\ \A j \in 2..(c - 1) :
                 Char(s, j) \in CharsOf(LowerS) \cup CharsOf(UpperS)
                                \cup CharsOf(DigitS) \cup {"+", "-", "."}
        THEN ToLower(SubSeq(s, 1, c - 1))
        ELSE ""

RECURSIVE SkipSlashes(_)
SkipSlashes(s) ==
    IF s # "" /\ Char(s, 1) \in {"/", "\\"} THEN SkipSlashes(SubSeq(s, 2, Len(s))) ELSE s

\* the authority's host of a special-scheme URL
HostOf(url) ==
    LET s    == Trim(url)
        rest == SkipSlashes(SubSeq(s, FirstOf(s, {":"}) + 1, Len(s)))
        e    == FirstOf(rest, {"/", "\\", "?", "#"})
    IN  IF e = 0 THEN rest ELSE SubSeq(rest, 1, e - 1)

URLParses(url) ==
    LET scheme == SchemeOf(url)
    IN  /\ scheme # ""
        /\ scheme \in SpecialSchemes =>
              /\ HostOf(url) # ""
              /\ CharsOf(HostOf(url)) \cap {" ", "<", ">", "^", "|"} = {}

\* isSSEUrl
isSSEUrl(url) ==
    IF URLParses(url)
    THEN startsWith(url, "http://") \/ startsWith(url, "https://")
    ELSE FALSE

-----------------------------------------------------------------------------
(* MCPClientConfig['serverConfig'].  Every field is optional: `has` is the *)
(* set of fields that are not undefined; a field outside `has` holds the   *)
(* empty value of its type.  env maps variable names to values.            *)

Fields == {"command", "args", "env", "cwd", "sseUrl"}

EmptyEnv == [k \in {} |-> ""]

ServerConfig(has, command, args, env, cwd, sseUrl) ==
    [has     |-> has,
     command |-> IF "command" \in has THEN command ELSE "",
     args    |-> IF "args" \in has THEN args ELSE <<>>,
     env     |-> IF "env" \in has THEN env ELSE EmptyEnv,
     cwd     |-> IF "cwd" \in has THEN cwd ELSE "",
     sseUrl  |-> IF "sseUrl" \in has THEN sseUrl ELSE ""]

\* JavaScript truthiness of an optional string field: defined and not ''
Truthy(sc, f) == f \in sc.has /\ sc[f] # ""

npmMirrorRegistry == "https://registry.npmmirror.com"
uvDefaultIndex == "https://pypi.tuna.tsinghua.edu.cn/simple"

\* the spread written { key: value, ...env }: a caller's entry wins
SpreadCallerWins(env, key, value) ==
    [k \in (DOMAIN env) \cup {key} |-> IF k \in DOMAIN env THEN env[k] ELSE value]

\* { ...env, key: value }
Spread(env, key, value) ==
    [k \in (DOMAIN env) \cup {key} |-> IF k = key THEN value ELSE env[k]]

\* the object literal { command, args, env, cwd } with cwd possibly undefined
Rewritten(command, args, env, serverConfig) ==
    ServerConfig({"command", "args", "env"}
                    \cup (IF Truthy(serverConfig, "cwd") THEN {"cwd"} ELSE {}),
                 command, args, env, serverConfig.cwd, "")

\* generateNpxCommand, Unix branch made to keep the runner as the command
generateNpxCommandKeepsRunner(serverConfig) ==
    LET currentNpxPath == "npx"
        args == serverConfig.args
        env  == serverConfig.env
    IN  IF platform = "win32"
        THEN Rewritten("cmd",
                       <<"/c", currentNpxPath, "--registry=" \o npmMirrorRegistry>> \o args,
                       Spread(env, "NPM_CONFIG_REGISTRY", npmMirrorRegistry),
                       serverConfig)
        ELSE Rewritten(currentNpxPath,
                       <<"--registry=" \o npmMirrorRegistry>> \o args,
                       Spread(env, "NPM_CONFIG_REGISTRY", npmMirrorRegistry),
                       serverConfig)

\* generateNpxCommand without the --registry flag
generateNpxCommandNoFlag(serverConfig) ==
    LET currentNpxPath == "npx"
        args == serverConfig.args
        env  == serverConfig.env
    IN  IF platform = "win32"
        THEN Rewritten("cmd", <<"/c", currentNpxPath>> \o args,
                       Spread(env, "NPM_CONFIG_REGISTRY", npmMirrorRegistry),
                       serverConfig)
        ELSE Rewritten("bash", <<"-c", currentNpxPath \o " " \o join(args)>>,
                       Spread(env, "NPM_CONFIG_REGISTRY", npmMirrorRegistry),
                       serverConfig)

\* generateNpxCommand: args || [], env || {}, cwd || undefined
generateNpxCommand(serverConfig) ==
    LET currentNpxPath == "npx"
        args == serverConfig.args
        env  == serverConfig.env
    IN  IF platform = "win32"
        THEN Rewritten("cmd",
                       <<"/c", currentNpxPath, "--registry=" \o npmMirrorRegistry>> \o args,
                       Spread(env, "NPM_CONFIG_REGISTRY", npmMirrorRegistry),
                       serverConfig)
        ELSE Rewritten("bash",
                       <<"-c", currentNpxPath \o " --registry=" \o npmMirrorRegistry
                                  \o " " \o join(args)>>,
                       Spread(env, "NPM_CONFIG_REGISTRY", npmMirrorRegistry),
                       serverConfig)

\* generateUvxCommand
generateUvxCommand(serverConfig) ==
    LET currentUvxPath == "uvx"
        args == serverConfig.args
        env  == serverConfig.env
    IN  IF platform = "win32"
        THEN Rewritten("cmd", <<"/c", currentUvxPath>> \o args,
                       Spread(env, "UV_DEFAULT_INDEX", uvDefaultIndex),
                       serverConfig)
        ELSE Rewritten("bash", <<"-c", currentUvxPath \o " " \o join(args)>>,
                       Spread(env, "UV_DEFAULT_INDEX", uvDefaultIndex),
                       serverConfig)

\* generateCallStdioServerCommand that wraps every non-empty command in a shell
generateCallStdioServerCommandWrapsAll(sourceServerConfig) ==
    LET command == sourceServerConfig.command
    IN  IF command = "npx" THEN generateNpxCommand(sourceServerConfig)
        ELSE IF command = "uvx" THEN generateUvxCommand(sourceServerConfig)
        ELSE IF command # ""
             THEN Rewritten("bash",
                            <<"-c", command \o " " \o join(sourceServerConfig.args)>>,
                            sourceServerConfig.env, sourceServerConfig)
        ELSE sourceServerConfig

\* generateCallStdioServerCommand: command || '' is the field's stored value
generateCallStdioServerCommand(sourceServerConfig) ==
    LET command == sourceServerConfig.command
    IN  IF command = "npx" THEN generateNpxCommand(sourceServerConfig)
        ELSE IF command = "uvx" THEN generateUvxCommand(sourceServerConfig)
        ELSE sourceServerConfig

-----------------------------------------------------------------------------
(* Errors and transport handles *)

Err(kind, msg, n) == [kind |-> kind, msg |-> msg, n |-> n]
NoError == Err("none", "", 0)

NoHandle ==
    [kind |-> "none", command |-> "", args |-> <<>>, env |-> EmptyEnv,
     hasEnv |-> FALSE, cwd |-> "", hasCwd |-> FALSE, url |-> ""]

\* new StdioClientTransport({command, args || [], env || undefined, cwd || undefined})
StdioClientTransport(sc) ==
    [kind |-> "stdio", command |-> sc.command, args |-> sc.args,
     env |-> sc.env, hasEnv |-> "env" \in sc.has,
     cwd |-> IF Truthy(sc, "cwd") THEN sc.cwd ELSE "",
     hasCwd |-> Truthy(sc, "cwd"), url |-> ""]

\* new SSEClientTransport(new URL(sseUrl))
SSEClientTransport(url) ==
    [kind |-> "sse", command |-> "", args |-> <<>>, env |-> EmptyEnv,
     hasEnv |-> FALSE, cwd |-> "", hasCwd |-> FALSE, url |-> url]

Built(h) == [ok |-> TRUE, handle |-> h, error |-> NoError]
Thrown(e) == [ok |-> FALSE, handle |-> NoHandle, error |-> e]

\* createTransport that builds a handle without validating the config
createTransportUnchecked(cfg) ==
    IF cfg.transportType = "sse"
    THEN Built(SSEClientTransport(cfg.serverConfig.sseUrl))
    ELSE Built(StdioClientTransport(cfg.serverConfig))

\* createTransport, reading the stored config cfg
createTransport(cfg) ==
    CASE cfg.transportType = "stdio" ->
            IF ~Truthy(cfg.serverConfig, "command")
            THEN Thrown(Err("ConfigError", "Missing command for STDIO transport", 0))
            ELSE Built(StdioClientTransport(cfg.serverConfig))
      [] cfg.transportType = "sse" ->
            IF ~Truthy(cfg.serverConfig, "sseUrl") \/ ~isSSEUrl(cfg.serverConfig.sseUrl)
            THEN Thrown(Err("ConfigError", "invalid SSE URL", 0))
            ELSE Built(SSEClientTransport(cfg.serverConfig.sseUrl))
      [] OTHER ->
            Thrown(Err("ConfigError", "Unsupported transport type", 0))

-----------------------------------------------------------------------------
(* Program constants *)

\* const maxRetries = 3
maxRetries == 3
\* const retryDelay = 1000
retryDelay == 1000
\* let retries = 3 (listTools)
listToolsRetries == 3
\* setTimeout(resolve, 1000) (listTools)
listToolsDelay == 1000
\* { timeout: 5 * 60 * 1000 }
callToolTimeout == 300000

-----------------------------------------------------------------------------
(* Inputs *)

Platforms == {"win32", "linux", "darwin"}

ArgVals == {"-y", "pkg"}
ArgSeqs == UNION { [1..n -> ArgVals] : n \in 0..MaxArgs }

Envs ==
    { EmptyEnv,
      [k \in {"HOME"} |-> "/home/u"],
      [k \in {"NPM_CONFIG_REGISTRY", "HOME"} |->
          IF k = "HOME" THEN "/home/u" ELSE "https://my.registry"],
      [k \in {"UV_DEFAULT_INDEX"} |-> "https://my.index"] }

Config(transportType, serverConfig) ==
    [transportType |-> transportType, serverConfig |-> serverConfig]

\* pipe-mode server parameters of every shape, for the rewriter
RewriterInputs ==
    { ServerConfig(has, command, args, env, cwd, sseUrl) :
        has \in SUBSET Fields,
        command \in {"", "npx", "uvx", "node", "bash", "NPX"},
        args \in ArgSeqs, env \in Envs,
        cwd \in {"", "/work"}, sseUrl \in {"http://a.io/sse"} }

Urls ==
    {"http://a.io/sse", "https://a.io/sse", "HTTP://a.io/sse", "ftp://a.io/sse",
     "a.io/sse", "http://", " http://a.io/sse", ""}

\* the configurations the connection state machine is run on
Configs ==
    { Config("stdio", ServerConfig({"command", "args", "env", "cwd"}, "npx",
                                   <<"-y", "pkg">>, [k \in {"HOME"} |-> "/home/u"],
                                   "/work", "")),
      Config("stdio", ServerConfig({"command"}, "npx", <<>>, EmptyEnv, "", "")),
      Config("stdio", ServerConfig({"command", "args"}, "uvx", <<"pkg">>, EmptyEnv, "", "")),
      Config("stdio", ServerConfig({"command", "args"}, "node", <<"server.js">>,
                                   EmptyEnv, "", "")),
      Config("stdio", ServerConfig({"command", "args"}, "", <<"-y">>, EmptyEnv, "", "")),
      Config("stdio", ServerConfig({"args"}, "", <<"-y">>, EmptyEnv, "", "")),
      Config("sse", ServerConfig({"command", "sseUrl"}, "npx", <<>>, EmptyEnv, "",
                                 "http://a.io/sse")),
      Config("sse", ServerConfig({}, "", <<>>, EmptyEnv, "", "")),
      Config("websocket", ServerConfig({"command", "sseUrl"}, "node", <<>>, EmptyEnv, "",
                                       "http://a.io/sse")) }
    \cup { Config("sse", ServerConfig({"sseUrl"}, "", <<>>, EmptyEnv, "", u)) : u \in Urls }

-----------------------------------------------------------------------------
(* What an operation gives its caller, and the events it leaves *)

Pending == [status |-> "pending", value |-> <<>>, error |-> NoError]
Returned(v) == [status |-> "returned", value |-> v, error |-> NoError]
Threw(e) == [status |-> "thrown", value |-> <<>>, error |-> e]

\* an event: its name, a number (handle id, delay or timeout in ms) and a value
EvVal(e, a, v) == [ev |-> e, arg |-> a, val |-> v]
Ev(e, a) == EvVal(e, a, <<>>)

\* what the SDK's listTools may resolve with
ToolsResults ==
    { [hasTools |-> TRUE, tools |-> <<"A", "B">>],
      [hasTools |-> TRUE, tools |-> <<>>],
      [hasTools |-> FALSE, tools |-> <<>>] }

ResourceLists == { <<>>, <<"R1">> }

-----------------------------------------------------------------------------
(* Initial states *)

InitWith(cfg) ==
    /\ platform \in Platforms
    /\ config0 = cfg
    /\ clientConfig = cfg
    /\ transport = 0
    /\ handles = <<>>
    /\ connectCalls = <<>>
    /\ sessionOpen = FALSE
    /\ lastOpen = 0
    /\ pc = "idle"
    /\ op = "none"
    /\ retries = 0
    /\ connects = 0
    /\ rewrites = 0
    /\ afterFirst = cfg
    /\ log = <<>>
    /\ underErrs = <<>>
    /\ result = [status |-> "none", value |-> <<>>, error |-> NoError]

\* constructor(config)
Init == \E cfg \in Configs : InitWith(cfg)

InitRewrite == \E sc \in RewriterInputs : InitWith(Config("stdio", sc))

-----------------------------------------------------------------------------
(* connectToServer *)

\* the catch block with the budget test written retries > maxRetries
CatchOffByOne(error, r, lg, errs) ==
    /\ retries' = r + 1
    /\ underErrs' = Append(errs, error)
    /\ IF r + 1 > maxRetries
       THEN /\ pc' = "idle"
            /\ result' = Threw(error)
            /\ log' = Append(lg, Ev("throw", 0))
       ELSE /\ pc' = "delay"
            /\ result' = Pending
            /\ log' = Append(lg, Ev("delay", retryDelay))

\* the catch block rethrowing the first error it saw instead of the current one
CatchThrowsFirst(error, r, lg, errs) ==
    /\ retries' = r + 1
    /\ underErrs' = Append(errs, error)
    /\ IF r + 1 >= maxRetries
       THEN /\ pc' = "idle"
            /\ result' = Threw(Append(errs, error)[1])
            /\ log' = Append(lg, Ev("throw", 0))
       ELSE /\ pc' = "delay"
            /\ result' = Pending
            /\ log' = Append(lg, Ev("delay", retryDelay))

\* the catch block: retries++, rethrow when the budget is spent, else wait
Catch(error, r, lg, errs) ==
    /\ retries' = r + 1
    /\ underErrs' = Append(errs, error)
    /\ IF r + 1 >= maxRetries
       THEN /\ pc' = "idle"
            /\ result' = Threw(error)
            /\ log' = Append(lg, Ev("throw", 0))
       ELSE /\ pc' = "delay"
            /\ result' = Pending
            /\ log' = Append(lg, Ev("delay", retryDelay))

\* the rewrite applied without testing the transport type
StdioConfigAlways(cfg) ==
    Config(cfg.transportType, generateCallStdioServerCommand(cfg.serverConfig))

\* the stdio branch of the try block: rewrite and store the server config
StdioConfig(cfg) ==
    IF cfg.transportType = "stdio"
    THEN Config("stdio", generateCallStdioServerCommand(cfg.serverConfig))
    ELSE cfg

\* one pass through the try block that rewrites on the first pass only
IterationRewriteOnce(r, lg, errs) ==
    LET stdio == clientConfig.transportType = "stdio" /\ r = 0
        cfg1  == IF stdio THEN StdioConfig(clientConfig) ELSE clientConfig
        lg1   == IF stdio
                 THEN Append(lg, Ev("rewrite", IF cfg1 = clientConfig THEN 0 ELSE 1))
                 ELSE lg
        ct    == createTransport(cfg1)
        id    == Len(handles) + 1
    IN  /\ clientConfig' = cfg1
        /\ rewrites' = IF stdio THEN rewrites + 1 ELSE rewrites
        /\ afterFirst' = IF stdio /\ rewrites = 0 THEN cfg1 ELSE afterFirst
        /\ IF ct.ok
           THEN /\ handles' = Append(handles, ct.handle)
                /\ transport' = id
                /\ connectCalls' = Append(connectCalls, id)
                /\ pc' = "connecting"
                /\ retries' = r
                /\ underErrs' = errs
                /\ result' = Pending
                /\ log' = lg1 \o <<Ev("create", id), Ev("connect", id)>>
           ELSE /\ UNCHANGED <<handles, transport, connectCalls>>
                /\ Catch(ct.error, r, Append(lg1, Ev("createThrow", 0)), errs)

\* one pass through the try block that builds a handle only when none is stored
IterationReusesHandle(r, lg, errs) ==
    LET stdio == clientConfig.transportType = "stdio"
        cfg1  == StdioConfig(clientConfig)
        lg1   == IF stdio
                 THEN Append(lg, Ev("rewrite", IF cfg1 = clientConfig THEN 0 ELSE 1))
                 ELSE lg
        ct    == createTransport(cfg1)
        id    == IF transport # 0 THEN transport ELSE Len(handles) + 1
    IN  /\ clientConfig' = cfg1
        /\ rewrites' = IF stdio THEN rewrites + 1 ELSE rewrites
        /\ afterFirst' = IF stdio /\ rewrites = 0 THEN cfg1 ELSE afterFirst
        /\ IF ct.ok
           THEN /\ handles' = IF transport # 0 THEN handles ELSE Append(handles, ct.handle)
                /\ transport' = id
                /\ connectCalls' = Append(connectCalls, id)
                /\ pc' = "connecting"
                /\ retries' = r
                /\ underErrs' = errs
                /\ result' = Pending
                /\ log' = IF transport # 0
                          THEN Append(lg1, Ev("connect", id))
                          ELSE lg1 \o <<Ev("create", id), Ev("connect", id)>>
           ELSE /\ UNCHANGED <<handles, transport, connectCalls>>
                /\ Catch(ct.error, r, Append(lg1, Ev("createThrow", 0)), errs)

\* one pass through the try block that builds the handle from the config as it
\* was stored before this pass rewrote it
IterationBuildsFromStored(r, lg, errs) ==
    LET stdio == clientConfig.transportType = "stdio"
        cfg1  == StdioConfig(clientConfig)
        lg1   == IF stdio
                 THEN Append(lg, Ev("rewrite", IF cfg1 = clientConfig THEN 0 ELSE 1))
                 ELSE lg
        ct    == createTransport(clientConfig)
        id    == Len(handles) + 1
    IN  /\ clientConfig' = cfg1
        /\ rewrites' = IF stdio THEN rewrites + 1 ELSE rewrites
        /\ afterFirst' = IF stdio /\ rewrites = 0 THEN cfg1 ELSE afterFirst
        /\ IF ct.ok
           THEN /\ handles' = Append(handles, ct.handle)
                /\ transport' = id
                /\ connectCalls' = Append(connectCalls, id)
                /\ pc' = "connecting"
                /\ retries' = r
                /\ underErrs' = errs
                /\ result' = Pending
                /\ log' = lg1 \o <<Ev("create", id), Ev("connect", id)>>
           ELSE /\ UNCHANGED <<handles, transport, connectCalls>>
                /\ Catch(ct.error, r, Append(lg1, Ev("createThrow", 0)), errs)

\* one pass through the try block, up to the await of mcpClient.connect
Iteration(r, lg, errs) ==
    LET stdio == clientConfig.transportType = "stdio"
        cfg1  == StdioConfig(clientConfig)
        lg1   == IF stdio
                 THEN Append(lg, Ev("rewrite", IF cfg1 = clientConfig THEN 0 ELSE 1))
                 ELSE lg
        ct    == createTransport(cfg1)
        id    == Len(handles) + 1
    IN  /\ clientConfig' = cfg1
        /\ rewrites' = IF stdio THEN rewrites + 1 ELSE rewrites
        /\ afterFirst' = IF stdio /\ rewrites = 0 THEN cfg1 ELSE afterFirst
        /\ IF ct.ok
           THEN /\ handles' = Append(handles, ct.handle)
                /\ transport' = id
                /\ connectCalls' = Append(connectCalls, id)
                /\ pc' = "connecting"
                /\ retries' = r
                /\ underErrs' = errs
                /\ result' = Pending
                /\ log' = lg1 \o <<Ev("create", id), Ev("connect", id)>>
           ELSE /\ UNCHANGED <<handles, transport, connectCalls>>
                /\ Catch(ct.error, r, Append(lg1, Ev("createThrow", 0)), errs)

\* while (retries < maxRetries) { ... }; falling out of the loop returns undefined
Loop(r, lg, errs) ==
    IF r < maxRetries
    THEN Iteration(r, lg, errs)
    ELSE /\ pc' = "idle"
         /\ result' = Returned(<<>>)
         /\ log' = Append(lg, Ev("return", 0))
         /\ retries' = r
         /\ underErrs' = errs
         /\ UNCHANGED <<clientConfig, rewrites, afterFirst, handles, transport,
                        connectCalls>>

\* the caller invokes connectToServer(): let retries = 0, first pass
ConnectToServer ==
    /\ pc = "idle"
    /\ connects < MaxConnects
    /\ connects' = connects + 1
    /\ op' = "connectToServer"
    /\ Loop(0, <<>>, <<>>)
    /\ UNCHANGED <<platform, config0, sessionOpen, lastOpen>>

\* await this.mcpClient.connect(this.transport) resolves: return
ConnectResolve ==
    /\ pc = "connecting"
    /\ sessionOpen' = TRUE
    /\ lastOpen' = connectCalls[Len(connectCalls)]
    /\ pc' = "idle"
    /\ result' = Returned(<<>>)
    /\ log' = log \o <<Ev("connectOk", connectCalls[Len(connectCalls)]), Ev("return", 0)>>
    /\ UNCHANGED <<platform, config0, clientConfig, transport, handles, connectCalls,
                   op, retries, connects, rewrites, afterFirst, underErrs>>

\* await this.mcpClient.connect(this.transport) rejects: the catch block
ConnectReject ==
    /\ pc = "connecting"
    /\ \E open \in {FALSE, sessionOpen} : sessionOpen' = open
    /\ Catch(Err("ConnectionError", "", connectCalls[Len(connectCalls)]), retries,
             Append(log, Ev("connectFail", connectCalls[Len(connectCalls)])), underErrs)
    /\ UNCHANGED <<platform, config0, clientConfig, transport, handles, connectCalls,
                   lastOpen, op, connects, rewrites, afterFirst>>

\* the retry timer fires: back to the loop head
RetryDelayElapsed ==
    /\ pc = "delay"
    /\ Loop(retries, log, underErrs)
    /\ UNCHANGED <<platform, config0, sessionOpen, lastOpen, op, connects>>

-----------------------------------------------------------------------------
(* listTools *)

\* the caller invokes listTools(): let retries = 3, first call
ListTools ==
    /\ pc = "idle"
    /\ op' = "listTools"
    /\ retries' = listToolsRetries
    /\ pc' = "ltCalling"
    /\ log' = <<Ev("call", 0)>>
    /\ underErrs' = <<>>
    /\ result' = Pending
    /\ UNCHANGED <<platform, config0, clientConfig, transport, handles, connectCalls,
                   sessionOpen, lastOpen, connects, rewrites, afterFirst>>

\* await this.mcpClient.listTools() resolves: break; return toolsResult?.tools ?? []
ListToolsResolve ==
    /\ pc = "ltCalling"
    /\ sessionOpen
    /\ \E r \in ToolsResults :
          /\ result' = Returned(IF r.hasTools THEN r.tools ELSE <<>>)
          /\ log' = log \o <<EvVal("callOk", IF r.hasTools THEN 1 ELSE 0, r.tools),
                               Ev("return", 0)>>
    /\ pc' = "idle"
    /\ UNCHANGED <<platform, config0, clientConfig, transport, handles, connectCalls,
                   sessionOpen, lastOpen, op, retries, connects, rewrites, afterFirst,
                   underErrs>>

\* the catch block of listTools giving up one call early
ListToolsCatchThrowsEarly(error, r, lg, errs) ==
    /\ retries' = r - 1
    /\ underErrs' = Append(errs, error)
    /\ IF r - 1 <= 1
       THEN /\ pc' = "idle"
            /\ result' = Threw(error)
            /\ log' = Append(lg, Ev("throw", 0))
       ELSE /\ pc' = "ltDelay"
            /\ result' = Pending
            /\ log' = Append(lg, Ev("delay", listToolsDelay))

\* the catch block of listTools answering [] when the budget is spent
ListToolsCatchSwallows(error, r, lg, errs) ==
    /\ retries' = r - 1
    /\ underErrs' = Append(errs, error)
    /\ IF r - 1 = 0
       THEN /\ pc' = "idle"
            /\ result' = Returned(<<>>)
            /\ log' = Append(lg, Ev("return", 0))
       ELSE /\ pc' = "ltDelay"
            /\ result' = Pending
            /\ log' = Append(lg, Ev("delay", listToolsDelay))

\* the catch block of listTools: retries--, rethrow at 0, else wait
ListToolsCatch(error, r, lg, errs) ==
    /\ retries' = r - 1
    /\ underErrs' = Append(errs, error)
    /\ IF r - 1 = 0
       THEN /\ pc' = "idle"
            /\ result' = Threw(error)
            /\ log' = Append(lg, Ev("throw", 0))
       ELSE /\ pc' = "ltDelay"
            /\ result' = Pending
            /\ log' = Append(lg, Ev("delay", listToolsDelay))

\* await this.mcpClient.listTools() rejects
ListToolsReject ==
    /\ pc = "ltCalling"
    /\ ListToolsCatch(Err("OperationError", "", Len(underErrs) + 1), retries,
                      Append(log, Ev("callFail", 0)), underErrs)
    /\ UNCHANGED <<platform, config0, clientConfig, transport, handles, connectCalls,
                   sessionOpen, lastOpen, op, connects, rewrites, afterFirst>>

\* the listTools timer fires: while (retries > 0), call again
ListToolsDelayElapsed ==
    /\ pc = "ltDelay"
    /\ IF retries > 0
       THEN /\ pc' = "ltCalling"
            /\ log' = Append(log, Ev("call", 0))
            /\ result' = Pending
       ELSE /\ pc' = "idle"
            /\ log' = Append(log, Ev("return", 0))
            /\ result' = Returned(<<>>)
    /\ UNCHANGED <<platform, config0, clientConfig, transport, handles, connectCalls,
                   sessionOpen, lastOpen, op, retries, connects, rewrites, afterFirst,
                   underErrs>>

-----------------------------------------------------------------------------
(* callTool, listResources, readResource, cleanup: one awaited call each *)

Invoke(name, at, timeout) ==
    /\ pc = "idle"
    /\ op' = name
    /\ pc' = at
    /\ log' = <<Ev("call", timeout)>>
    /\ underErrs' = <<>>
    /\ result' = Pending
    /\ UNCHANGED <<platform, config0, clientConfig, transport, handles, connectCalls,
                   sessionOpen, lastOpen, retries, connects, rewrites, afterFirst>>

\* the awaited call resolves: return its result
AwaitResolves(at, values) ==
    /\ pc = at
    /\ sessionOpen
    /\ \E v \in values :
          /\ result' = Returned(v)
          /\ log' = log \o <<EvVal("callOk", 1, v), Ev("return", 0)>>
    /\ pc' = "idle"
    /\ UNCHANGED <<platform, config0, clientConfig, transport, handles, connectCalls,
                   sessionOpen, lastOpen, op, retries, connects, rewrites, afterFirst,
                   underErrs>>

\* the awaited call rejects and the catch block retries it
AwaitRejectsRetried(at, kinds) ==
    /\ pc = at
    /\ \E k \in kinds : underErrs' = Append(underErrs, Err(k, "", Len(underErrs) + 1))
    /\ Len(underErrs) < maxRetries
    /\ pc' = at
    /\ result' = Pending
    /\ log' = log \o <<Ev("callFail", 0), Ev("call", 0)>>
    /\ UNCHANGED <<platform, config0, clientConfig, transport, handles, connectCalls,
                   sessionOpen, lastOpen, op, retries, connects, rewrites, afterFirst>>

\* the awaited call rejects: catch (error) { throw error }
AwaitRejects(at, kinds) ==
    /\ pc = at
    /\ \E k \in kinds :
          /\ underErrs' = Append(underErrs, Err(k, "", Len(underErrs) + 1))
          /\ result' = Threw(Err(k, "", Len(underErrs) + 1))
    /\ pc' = "idle"
    /\ log' = log \o <<Ev("callFail", 0), Ev("throw", 0)>>
    /\ UNCHANGED <<platform, config0, clientConfig, transport, handles, connectCalls,
                   sessionOpen, lastOpen, op, retries, connects, rewrites, afterFirst>>

CallTool == Invoke("callTool", "ctCalling", callToolTimeout)
CallToolResolve == AwaitResolves("ctCalling", {<<"content">>})
CallToolReject == AwaitRejects("ctCalling", {"OperationError", "TimeoutError"})

ListResources == Invoke("listResources", "lrCalling", 0)
ListResourcesResolve == AwaitResolves("lrCalling", ResourceLists)
ListResourcesReject == AwaitRejects("lrCalling", {"OperationError"})

ReadResource == Invoke("readResource", "rrCalling", 0)
ReadResourceResolve == AwaitResolves("rrCalling", ResourceLists)
ReadResourceReject == AwaitRejects("rrCalling", {"OperationError"})

\* cleanup(): await this.mcpClient.close()
Cleanup == Invoke("cleanup", "closing", 0)

\* cleanup that also unsets the stored transport handle
CleanupResolveClearsTransport ==
    /\ pc = "closing"
    /\ sessionOpen' = FALSE
    /\ transport' = 0
    /\ pc' = "idle"
    /\ result' = Returned(<<>>)
    /\ log' = log \o <<Ev("callOk", 0), Ev("return", 0)>>
    /\ UNCHANGED <<platform, config0, clientConfig, handles, connectCalls,
                   lastOpen, op, retries, connects, rewrites, afterFirst, underErrs>>

\* await this.mcpClient.close() resolves
CleanupResolve ==
    /\ pc = "closing"
    /\ sessionOpen' = FALSE
    /\ pc' = "idle"
    /\ result' = Returned(<<>>)
    /\ log' = log \o <<Ev("callOk", 0), Ev("return", 0)>>
    /\ UNCHANGED <<platform, config0, clientConfig, transport, handles, connectCalls,
                   lastOpen, op, retries, connects, rewrites, afterFirst, underErrs>>

CleanupReject ==
    /\ pc = "closing"
    /\ \E open \in {FALSE, sessionOpen} : sessionOpen' = open
    /\ underErrs' = Append(underErrs, Err("OperationError", "", 1))
    /\ result' = Threw(Err("OperationError", "", 1))
    /\ pc' = "idle"
    /\ log' = log \o <<Ev("callFail", 0), Ev("throw", 0)>>
    /\ UNCHANGED <<platform, config0, clientConfig, transport, handles, connectCalls,
                   lastOpen, op, retries, connects, rewrites, afterFirst>>

-----------------------------------------------------------------------------
(* Specifications *)

Next ==
    \/ ConnectToServer
    \/ ConnectResolve
    \/ ConnectReject
    \/ RetryDelayElapsed
    \/ ListTools
    \/ ListToolsResolve
    \/ ListToolsReject
    \/ ListToolsDelayElapsed
    \/ CallTool
    \/ CallToolResolve
    \/ CallToolReject
    \/ ListResources
    \/ ListResourcesResolve
    \/ ListResourcesReject
    \/ ReadResource
    \/ ReadResourceResolve
    \/ ReadResourceReject
    \/ Cleanup
    \/ CleanupResolve
    \/ CleanupReject

Spec == Init /\ [][Next]_vars

\* the rewriter applied to the stored server config, as the try block does
ApplyRewriter ==
    /\ rewrites < MaxRewrites
    /\ clientConfig' = StdioConfig(clientConfig)
    /\ rewrites' = rewrites + 1
    /\ afterFirst' = IF rewrites = 0 THEN clientConfig' ELSE afterFirst
    /\ UNCHANGED <<platform, config0, transport, handles, connectCalls, sessionOpen,
                   lastOpen, pc, op, retries, connects, log, underErrs, result>>

NextRewrite == ApplyRewriter

SpecRewrite == InitRewrite /\ [][NextRewrite]_vars

-----------------------------------------------------------------------------
(* Vocabulary of the properties *)

Count(lg, e) == Cardinality({ i \in DOMAIN lg : lg[i].ev = e })

Finished(name) == op = name /\ pc = "idle" /\ result.status \in {"returned", "thrown"}

\* pipe config with a missing or empty command
MissingCommand(cfg) ==
    /\ cfg.transportType = "stdio"
    /\ "command" \notin cfg.serverConfig.has \/ cfg.serverConfig.command = ""

\* stream config whose URL is missing, fails to parse or has no http/https scheme
BadStreamUrl(cfg) ==
    /\ cfg.transportType = "sse"
    /\ \/ "sseUrl" \notin cfg.serverConfig.has
       \/ ~URLParses(cfg.serverConfig.sseUrl)
       \/ SchemeOf(cfg.serverConfig.sseUrl) \notin {"http", "https"}

UnsupportedKind(cfg) == cfg.transportType \notin {"stdio", "sse"}

InvalidConfig(cfg) == MissingCommand(cfg) \/ BadStreamUrl(cfg) \/ UnsupportedKind(cfg)

\* a configuration a handle can be built from: a pipe config with a non-empty
\* command, or a stream config whose URL parses and begins http:// or https://
AcceptedConfig(cfg) ==
    \/ /\ cfg.transportType = "stdio"
       /\ "command" \in cfg.serverConfig.has
       /\ cfg.serverConfig.command # ""
    \/ /\ cfg.transportType = "sse"
       /\ "sseUrl" \in cfg.serverConfig.has
       /\ URLParses(cfg.serverConfig.sseUrl)
       /\ \/ SubSeq(cfg.serverConfig.sseUrl, 1, 7) = "http://"
          \/ SubSeq(cfg.serverConfig.sseUrl, 1, 8) = "https://"

\* the strings of a, in order, separated by single spaces
RECURSIVE SpaceJoined(_)
SpaceJoined(a) ==
    IF Len(a) = 0 THEN ""
    ELSE IF Len(a) = 1 THEN a[1]
    ELSE SpaceJoined(SubSeq(a, 1, Len(a) - 1)) \o " " \o a[Len(a)]

-----------------------------------------------------------------------------
(* C1 *)

\* C1: when building the transport handle fails (missing or empty command,
\* invalid stream URL, unsupported transport kind), connectToServer surfaces
\* the configuration error after exactly one handle-construction attempt,
\* with no backoff delay and no further loop iteration.
C1_ConfigErrorNotRetried ==
    (Finished("connectToServer") /\ InvalidConfig(config0)) =>
        /\ result.status = "thrown"
        /\ result.error.kind = "ConfigError"
        /\ Count(log, "createThrow") = 1
        /\ Count(log, "delay") = 0
        /\ retries = 1

-----------------------------------------------------------------------------
(* C2 *)

\* C2: with an accepted configuration, a connectToServer that returns after k
\* failed session opens has k in {0,1,2}, made exactly k+1 session-open
\* attempts and waited exactly k times, 1000 ms each, every wait directly
\* after a failed attempt and before the next attempt.
C2_RetryThenConnected ==
    (Finished("connectToServer") /\ AcceptedConfig(config0)
        /\ result.status = "returned") =>
        LET k == Count(log, "connectFail")
        IN  /\ k \in 0..2
            /\ Count(log, "connect") = k + 1
            /\ Count(log, "connectOk") = 1
            /\ Count(log, "delay") = k
            /\ sessionOpen
            /\ \A i \in DOMAIN log :
                  log[i].ev = "delay" =>
                     /\ log[i].arg = 1000
                     /\ i > 1 /\ log[i - 1].ev = "connectFail"
                     /\ \E j \in (i + 1)..Len(log) : log[j].ev = "connect"

\* a connectToServer that returned after two failed session opens
C2_Witness ==
    /\ Finished("connectToServer")
    /\ AcceptedConfig(config0)
    /\ result.status = "returned"
    /\ Count(log, "connectFail") = 2
    /\ Count(log, "connect") = 3
    /\ Count(log, "delay") = 2

-----------------------------------------------------------------------------
(* C3 *)

\* C3: with an accepted configuration, a connectToServer that throws made
\* exactly 3 session-open attempts, all failed, waited exactly twice with no
\* wait after the last failure, and throws the error of the third failure.
C3_ExhaustedThrowsLast ==
    (Finished("connectToServer") /\ AcceptedConfig(config0)
        /\ result.status = "thrown") =>
        /\ Count(log, "connect") = 3
        /\ Count(log, "connectFail") = 3
        /\ Count(log, "delay") = 2
        /\ Len(log) >= 2
        /\ log[Len(log)].ev = "throw"
        /\ log[Len(log) - 1].ev = "connectFail"
        /\ Len(underErrs) = 3
        /\ result.error = underErrs[3]
        /\ result.error # underErrs[1]
        /\ result.error # underErrs[2]
        /\ result.error.kind = "ConnectionError"
        /\ result.error.n = connectCalls[Len(connectCalls)]

\* a connectToServer that threw after three failed session opens
C3_Witness ==
    /\ Finished("connectToServer")
    /\ AcceptedConfig(config0)
    /\ result.status = "thrown"
    /\ Count(log, "connectFail") = 3

-----------------------------------------------------------------------------
(* C4 *)

\* C4: with a pipe config whose command is missing or empty, a stream config
\* whose URL fails to parse or lacks an http/https scheme, or an unsupported
\* transport kind, mcpClient.connect is never invoked.
C4_NoSessionOpenOnInvalidConfig ==
    InvalidConfig(config0) =>
        /\ connectCalls = <<>>
        /\ pc # "connecting"
        /\ Count(log, "connect") = 0
        /\ ~sessionOpen

\* connectToServer ran to its end on an invalid configuration
C4_Witness ==
    /\ InvalidConfig(config0)
    /\ Finished("connectToServer")
    /\ Count(log, "createThrow") = 3

-----------------------------------------------------------------------------
(* C5 *)

\* C5 as stated: for a pipe-mode config the rewriter is applied exactly once
\* per connectToServer invocation, however many attempts are made.
C5_RewriteOncePerInvocation ==
    (op = "connectToServer" /\ config0.transportType = "stdio") =>
        Count(log, "rewrite") = 1

\* C5 as amended: for a pipe-mode config the rewriter is applied once in every
\* loop iteration, directly before that iteration's handle construction, so an
\* invocation applies it as many times as it makes attempts (1, 2 or 3); only
\* the first application of the manager's lifetime can change the stored config.
C5_RewriteOncePerAttempt ==
    (op = "connectToServer" /\ config0.transportType = "stdio") =>
        /\ Count(log, "rewrite") = Count(log, "create") + Count(log, "createThrow")
        /\ Count(log, "rewrite") \in 1..3
        /\ \A i \in DOMAIN log :
              /\ log[i].ev \in {"create", "createThrow"} =>
                    i > 1 /\ log[i - 1].ev = "rewrite"
              /\ log[i].ev = "rewrite" =>
                    /\ i < Len(log)
                    /\ log[i + 1].ev \in {"create", "createThrow"}
                    /\ log[i].arg = 1 => (i = 1 /\ connects = 1)
        /\ Finished("connectToServer") =>
              Count(log, "rewrite") = Count(log, "connect") + Count(log, "createThrow")

\* a pipe-mode connectToServer that returned on its third attempt, after
\* three applications of the rewriter
C5_Witness ==
    /\ Finished("connectToServer")
    /\ config0.transportType = "stdio"
    /\ config0.serverConfig.command = "npx"
    /\ result.status = "returned"
    /\ Count(log, "connect") = 3
    /\ Count(log, "rewrite") = 3

-----------------------------------------------------------------------------
(* C6 *)

\* C6: listTools makes at most 3 underlying calls, waiting 1000 ms between
\* consecutive calls; after j failures (j in {0,1,2}) and a success it returns
\* the list of that success after j+1 calls and j waits; when every call fails
\* it throws the error of the last call after exactly 3 calls and 2 waits.
C6_ListToolsRetries ==
    op = "listTools" =>
        LET j == Count(log, "callFail")
        IN  /\ Count(log, "call") <= 3
            /\ \A i \in DOMAIN log :
                  log[i].ev = "delay" =>
                     /\ log[i].arg = 1000
                     /\ i > 1 /\ log[i - 1].ev = "callFail"
                     /\ i < Len(log) => log[i + 1].ev = "call"
            /\ (pc = "idle" /\ result.status = "returned") =>
                  /\ j \in 0..2
                  /\ Count(log, "call") = j + 1
                  /\ Count(log, "delay") = j
                  /\ \E i \in DOMAIN log :
                        log[i].ev = "callOk" /\ result.value = log[i].val
            /\ (pc = "idle" /\ result.status = "thrown") =>
                  /\ j = 3
                  /\ Count(log, "call") = 3
                  /\ Count(log, "delay") = 2
                  /\ log[Len(log) - 1].ev = "callFail"
                  /\ Len(underErrs) = 3
                  /\ result.error = underErrs[3]
                  /\ result.error # underErrs[1]
                  /\ result.error # underErrs[2]

\* listTools returned [A, B] on its third call
C6_Witness ==
    /\ Finished("listTools")
    /\ result.status = "returned"
    /\ result.value = <<"A", "B">>
    /\ Count(log, "callFail") = 2
    /\ Count(log, "call") = 3

-----------------------------------------------------------------------------
(* C7 *)

\* C7: callTool, listResources and readResource make exactly one underlying
\* call per invocation (callTool with a 300000 ms timeout); when that call
\* fails, timeout included, the same error reaches the caller with no retry
\* and no wait.
C7_SingleAttempt ==
    op \in {"callTool", "listResources", "readResource"} =>
        /\ Count(log, "call") = 1
        /\ Count(log, "delay") = 0
        /\ op = "callTool" => log[1].arg = 300000
        /\ Count(log, "callFail") <= 1
        /\ Count(log, "callFail") = 1 =>
              /\ pc = "idle"
              /\ result.status = "thrown"
              /\ Len(underErrs) = 1
              /\ result.error = underErrs[1]
        /\ (pc = "idle" /\ result.status = "thrown") => Count(log, "callFail") = 1

\* callTool threw the timeout error of its single call
C7_Witness ==
    /\ Finished("callTool")
    /\ result.status = "thrown"
    /\ result.error.kind = "TimeoutError"
    /\ Count(log, "call") = 1

-----------------------------------------------------------------------------
(* C8 *)

\* the command and args the policy table gives a runner on a platform
PolicyCommandArgs(runner, flags, args) ==
    IF platform = "win32"
    THEN [command |-> "cmd", args |-> <<"/c", runner>> \o flags \o args]
    ELSE [command |-> "bash",
          args |-> <<"-c", SpaceJoined(<<runner>> \o flags) \o " " \o SpaceJoined(args)>>]

MatchesPolicyTable(p, q) ==
    /\ p.command = "npx" =>
          LET want == PolicyCommandArgs("npx",
                         <<"--registry=https://registry.npmmirror.com">>, p.args)
          IN  q.command = want.command /\ q.args = want.args
    /\ p.command = "uvx" =>
          LET want == PolicyCommandArgs("uvx", <<>>, p.args)
          IN  q.command = want.command /\ q.args = want.args

\* the working directory a server config designates: <<dir>>, or <<>> for none
\* (a missing cwd and an empty one both designate none)
WorkingDirectory(sc) == IF "cwd" \in sc.has /\ sc.cwd # "" THEN <<sc.cwd>> ELSE <<>>

\* C8: one application of the rewriter to an npx or uvx command gives the
\* policy table's command and args on every platform (cmd /c on Windows,
\* bash -c with the space-joined line otherwise, --registry=<mirror> for npx
\* only), with the caller's args in order and the caller's working directory.
C8_PolicyTable ==
    (rewrites = 1 /\ config0.serverConfig.command \in {"npx", "uvx"}) =>
        LET p == config0.serverConfig
            q == clientConfig.serverConfig
        IN  /\ MatchesPolicyTable(p, q)
            /\ WorkingDirectory(q) = WorkingDirectory(p)

\* npx -y pkg rewritten once on a Unix platform, with a working directory
C8_Witness ==
    /\ rewrites = 1
    /\ platform = "linux"
    /\ config0.serverConfig.command = "npx"
    /\ config0.serverConfig.args = <<"-y", "pkg">>
    /\ config0.serverConfig.cwd = "/work"
    /\ clientConfig.serverConfig.command = "bash"
    /\ clientConfig.serverConfig.args =
          <<"-c", "npx --registry=https://registry.npmmirror.com -y pkg">>

-----------------------------------------------------------------------------
(* C9 *)

\* C9: for a launch command other than npx and uvx, missing and empty ones
\* included, the rewriter returns its input, equal in every field.
C9_IdentityOnOtherCommands ==
    (rewrites >= 1 /\ config0.serverConfig.command \notin {"npx", "uvx"}) =>
        LET p == config0.serverConfig
            q == clientConfig.serverConfig
        IN  /\ q.has = p.has
            /\ q.command = p.command
            /\ q.args = p.args
            /\ q.env = p.env
            /\ q.cwd = p.cwd
            /\ q.sseUrl = p.sseUrl
            /\ clientConfig = config0

\* the rewriter applied to a node command that carries every field
C9_Witness ==
    /\ rewrites >= 1
    /\ config0.serverConfig.command = "node"
    /\ config0.serverConfig.has = Fields
    /\ config0.serverConfig.args = <<"-y", "pkg">>
    /\ clientConfig = config0

-----------------------------------------------------------------------------
(* C10 *)

\* C10: the rewriter is idempotent: after n >= 1 applications the stored
\* config is the one stored after the first application, on every platform.
C10_Idempotent ==
    rewrites >= 1 =>
        /\ clientConfig = afterFirst
        /\ generateCallStdioServerCommand(afterFirst.serverConfig) = afterFirst.serverConfig

\* an npx config after three applications of the rewriter
C10_Witness ==
    /\ rewrites = 3
    /\ config0.serverConfig.command = "npx"
    /\ clientConfig # config0
    /\ clientConfig = afterFirst

-----------------------------------------------------------------------------
(* C11 *)

\* C11: for npx and uvx the rewritten environment is the caller's environment
\* with the mirror variable merged over it: every other caller key keeps its
\* value, no other key appears, and NPM_CONFIG_REGISTRY (npx) or
\* UV_DEFAULT_INDEX (uvx) holds the fixed mirror URL even when the caller gave
\* that key another value.
C11_MirrorMergedOverEnv ==
    (rewrites = 1 /\ config0.serverConfig.command \in {"npx", "uvx"}) =>
        LET p      == config0.serverConfig
            q      == clientConfig.serverConfig
            key    == IF p.command = "npx" THEN "NPM_CONFIG_REGISTRY"
                      ELSE "UV_DEFAULT_INDEX"
            mirror == IF p.command = "npx" THEN "https://registry.npmmirror.com"
                      ELSE "https://pypi.tuna.tsinghua.edu.cn/simple"
        IN  /\ "env" \in q.has
            /\ DOMAIN q.env = (DOMAIN p.env) \cup {key}
            /\ q.env[key] = mirror
            /\ \A k \in (DOMAIN p.env) \ {key} : q.env[k] = p.env[k]

\* an npx config whose caller set NPM_CONFIG_REGISTRY and HOME, rewritten once
C11_Witness ==
    /\ rewrites = 1
    /\ config0.serverConfig.command = "npx"
    /\ DOMAIN config0.serverConfig.env = {"NPM_CONFIG_REGISTRY", "HOME"}
    /\ config0.serverConfig.env["NPM_CONFIG_REGISTRY"] = "https://my.registry"
    /\ clientConfig.serverConfig.env["NPM_CONFIG_REGISTRY"] = "https://registry.npmmirror.com"
    /\ clientConfig.serverConfig.env["HOME"] = "/home/u"

-----------------------------------------------------------------------------
(* C12 *)

\* C12: within and across connectToServer invocations, every call of
\* mcpClient.connect receives a handle constructed in that same attempt and
\* never passed to an earlier connect; a handle whose open failed is not used
\* again.
C12_HandleFreshness ==
    /\ \A i, j \in DOMAIN connectCalls :
          i # j => connectCalls[i] # connectCalls[j]
    /\ \A i \in DOMAIN connectCalls : connectCalls[i] \in DOMAIN handles
    /\ Len(handles) = Len(connectCalls)
    /\ op = "connectToServer" =>
          \A i \in DOMAIN log :
             log[i].ev = "connect" =>
                /\ i > 1
                /\ log[i - 1].ev = "create"
                /\ log[i - 1].arg = log[i].arg
                /\ \A j \in 1..(i - 1) : log[j].ev = "connect" => log[j].arg # log[i].arg

\* a second connectToServer opening a session after failed opens in both
\* invocations
C12_Witness ==
    /\ connects = 2
    /\ Finished("connectToServer")
    /\ result.status = "returned"
    /\ Len(connectCalls) >= 5
    /\ Count(log, "connectFail") >= 1

-----------------------------------------------------------------------------
(* C13 *)

\* C13: the manager stores a transport handle only on a successful session
\* open and discards it on failure: when connectToServer has thrown after the
\* retry budget is spent, this.transport is unset.
C13_HandleUnsetAfterFailure ==
    (Finished("connectToServer") /\ result.status = "thrown") => transport = 0

-----------------------------------------------------------------------------
(* C14 *)

\* C14: no step changes the value of a stored stream-mode config; the value
\* of a stored pipe-mode config changes at most once in the manager's
\* lifetime, in the step that applies the rewriter for the first time, before
\* any transport handle was constructed and any session open attempted.
C14_ConfigChangesAtMostOnce ==
    [][ clientConfig' # clientConfig =>
           /\ config0.transportType = "stdio"
           /\ clientConfig = config0
           /\ rewrites = 0
           /\ handles = <<>>
           /\ connectCalls = <<>>
           /\ op' = "connectToServer"
           /\ clientConfig' # config0 ]_vars

\* a pipe-mode config that was rewritten, after two connectToServer
\* invocations and a facade operation
C14_Witness ==
    /\ config0.transportType = "stdio"
    /\ clientConfig # config0
    /\ clientConfig = afterFirst
    /\ connects = 2
    /\ rewrites >= 4
    /\ Finished("listResources")

-----------------------------------------------------------------------------
(* C15 *)

\* a syntactically valid absolute URL whose scheme, in any letter case, is
\* http or https
ValidHttpUrl(sc) ==
    /\ "sseUrl" \in sc.has
    /\ sc.sseUrl = Trim(sc.sseUrl)
    /\ URLParses(sc.sseUrl)
    /\ SchemeOf(sc.sseUrl) \in {"http", "https"}

\* C15: stream transport selection builds a handle if and only if streamUrl
\* is a syntactically valid absolute URL whose scheme is http or https, in
\* whatever letter case the scheme is written; every other value, a missing
\* or empty one included, fails with the invalid-URL configuration error and
\* constructs no handle.
C15_AcceptsIffValidHttpUrl ==
    (Finished("connectToServer") /\ config0.transportType = "sse") =>
        /\ ValidHttpUrl(config0.serverConfig) <=> Count(log, "create") >= 1
        /\ ~ValidHttpUrl(config0.serverConfig) =>
              /\ result.status = "thrown"
              /\ result.error.kind = "ConfigError"
              /\ result.error.msg = "invalid SSE URL"
              /\ handles = <<>>

-----------------------------------------------------------------------------
(* C16 *)

\* C16: connectToServer, listTools, callTool, listResources and readResource
\* return normally only if their last underlying call succeeded; listTools
\* returns the empty sequence only when a successful underlying call reported
\* no tools.
C16_NoSwallowedError ==
    (pc = "idle" /\ result.status = "returned"
        /\ op \in {"connectToServer", "listTools", "callTool", "listResources",
                   "readResource"}) =>
        /\ Len(log) >= 3
        /\ log[Len(log)].ev = "return"
        /\ log[Len(log) - 1].ev =
              (IF op = "connectToServer" THEN "connectOk" ELSE "callOk")
        /\ log[Len(log) - 2].ev =
              (IF op = "connectToServer" THEN "connect" ELSE "call")
        /\ op = "connectToServer" => sessionOpen /\ lastOpen = log[Len(log) - 1].arg
        /\ op # "connectToServer" => result.value = log[Len(log) - 1].val
        /\ (op = "listTools" /\ result.value = <<>>) => log[Len(log) - 1].val = <<>>

\* listTools returned the empty sequence reported by its second call
C16_Witness ==
    /\ Finished("listTools")
    /\ result.status = "returned"
    /\ result.value = <<>>
    /\ Count(log, "callFail") = 1
    /\ log[Len(log) - 1].ev = "callOk"

-----------------------------------------------------------------------------
(* C17 *)

\* the awaits a suspended connectToServer can still go through: two for each
\* iteration left in the budget, one more while a backoff delay is pending
AwaitsLeft ==
    IF pc \in {"connecting", "delay"}
    THEN 2 * (maxRetries - retries) + (IF pc = "delay" THEN 1 ELSE 0)
    ELSE 0

\* C17: each connectToServer invocation ends, once its session opens and its
\* backoff delays complete, either returning after a successful session open
\* or throwing, within at most 3 loop iterations; it never leaves the loop
\* returning normally without a successful open.  Termination is stated as a
\* variant: a suspended invocation always waits on exactly one await whose
\* completion strictly lowers the natural number AwaitsLeft, and AwaitsLeft 0
\* is the finished invocation.
C17_ConnectTerminates ==
    /\ [](op = "connectToServer" =>
             /\ Count(log, "create") + Count(log, "createThrow") <= 3
             /\ retries <= 3
             /\ pc \in {"idle", "connecting", "delay"}
             /\ AwaitsLeft \in 0..(2 * maxRetries)
             /\ AwaitsLeft = 0 <=> pc = "idle"
             /\ pc = "idle" =>
                   /\ result.status \in {"returned", "thrown"}
                   /\ result.status = "returned" =>
                         /\ log[Len(log) - 1].ev = "connectOk"
                         /\ retries < 3
                   /\ result.status = "thrown" =>
                         /\ Count(log, "connectOk") = 0
                         /\ retries = 3)
    /\ [][(pc \in {"connecting", "delay"}) =>
              (op' = "connectToServer" /\ AwaitsLeft' < AwaitsLeft)]_vars

\* a connectToServer that threw on a stream config after three iterations
C17_Witness ==
    /\ Finished("connectToServer")
    /\ config0.transportType = "sse"
    /\ result.status = "thrown"
    /\ result.error.kind = "ConnectionError"
    /\ retries = 3
    /\ Count(log, "create") = 3

-----------------------------------------------------------------------------
(* C18 *)

\* C18: when the config given to the constructor is a pipe config naming the
\* runner npx or uvx, every pipe handle createTransport has built, on the first
\* attempt and on every retry, has a launch command other than npx and uvx: it
\* is cmd on Windows and bash elsewhere.
C18_NoUnrewrittenRunner ==
    (config0.transportType = "stdio" /\ config0.serverConfig.command \in {"npx", "uvx"}) =>
        \A i \in DOMAIN handles :
            handles[i].kind = "stdio" =>
                /\ handles[i].command \notin {"npx", "uvx"}
                /\ handles[i].command = (IF platform = "win32" THEN "cmd" ELSE "bash")

\* a uvx config whose second handle, built on a retry, launches bash
C18_Witness ==
    /\ config0.transportType = "stdio"
    /\ config0.serverConfig.command = "uvx"
    /\ platform = "linux"
    /\ op = "connectToServer"
    /\ Count(log, "connectFail") >= 1
    /\ Len(handles) >= 2
    /\ handles[1].command = "bash"
    /\ handles[2].command = "bash"

-----------------------------------------------------------------------------
(* C19 *)

\* C19: with operations invoked one at a time, when connectToServer has
\* returned, the stored transport handle is the handle given to the most
\* recent successful session open, which is the last handle built and the one
\* of the last connect call; and no step of listTools, callTool,
\* listResources, readResource or cleanup changes the stored handle or the
\* handle last opened, so it stays that handle until connectToServer is
\* invoked again.
C19_StoredHandleIsOpenedHandle ==
    /\ []((Finished("connectToServer") /\ result.status = "returned") =>
             /\ transport \in DOMAIN handles
             /\ transport = lastOpen
             /\ transport = Len(handles)
             /\ transport = connectCalls[Len(connectCalls)]
             /\ log[Len(log) - 1] = Ev("connectOk", transport))
    /\ [][(op' # "connectToServer") =>
              (transport' = transport /\ lastOpen' = lastOpen)]_vars

\* cleanup returned after a second connection cycle that needed a retry: the
\* stored handle is still the third handle, the one last opened
C19_Witness ==
    /\ Finished("cleanup")
    /\ result.status = "returned"
    /\ connects = 2
    /\ Len(handles) = 3
    /\ transport = 3
    /\ lastOpen = 3

====
